---- MODULE Spec2Model ----
(***************************************************************************)
(* Branch-protection report (src/index.js): the run of main() against the  *)
(* GitHub REST API, the response interceptor, the pagination walker        *)
(* getRepos, getBranchProtectionRules, getRepoAdmins and the pure helper   *)
(* removeUrlsFromObject.                                                   *)
(*                                                                         *)
(* The program is one async function: between two awaits it runs without   *)
(* interruption, so a state of the model is a point where main() is        *)
(* suspended (a request outstanding, a timer pending) or has ended.        *)
(***************************************************************************)
EXTENDS Integers, Sequences, FiniteSets, TLC

(***************************************************************************)
(* Bounds of the model.                                                    *)
(***************************************************************************)
\* pages of the repository listing
MaxPages == 2
\* repositories of the organization, over all pages
MaxRepos == 2
\* 403 responses the API gives during one run
Max403 == 2
\* successful responses that carry x-ratelimit-remaining: 0 during one run
MaxThrottled == 1
\* nodes (scalars, lists, maps) of a tree given to removeUrlsFromObject
MaxNodes == 4
\* organization owners, and collaborators of one repository, in the
\* admin-exception resolver's inputs
MaxOwners == 2
MaxCollab == 3
\* the clock (ms) when the run starts
StartMs == 400
\* entries of a link header given to the link parsing of getRepos
MaxEntries == 3

(***************************************************************************)
(* Program constants.                                                      *)
(***************************************************************************)
\* sleep(60000), the backoff after a 403
BackoffMs == 60000
\* delay * 1000 in the interceptor's setTimeout, / 1000 of getTime()
MsPerSec == 1000
\* the longest delay setTimeout takes; any other delay is replaced by 1 ms
TimeoutMax == 2147483647

(***************************************************************************)
(* JavaScript values.  One record shape for every value, so that any two   *)
(* values can be compared: t is the type, v the characters of a string     *)
(* (also the spelling of a number or boolean), len the length of an array, *)
(* el the own enumerable properties of an object or array, by key.  An     *)
(* array is an object whose keys are "0", "1", ...: a missing key below    *)
(* len is a hole.                                                          *)
(***************************************************************************)
NoEl == [k \in {} |-> 0]

Undefined == [t |-> "undefined", v |-> <<>>, len |-> 0, el |-> NoEl]

Null == [t |-> "null", v |-> <<>>, len |-> 0, el |-> NoEl]

Bool(b) == [t |-> "boolean", v |-> IF b THEN <<"true">> ELSE <<"false">>, len |-> 0, el |-> NoEl]

\* a number, by its decimal spelling
Num(d) == [t |-> "number", v |-> <<d>>, len |-> 0, el |-> NoEl]

Str(s) == [t |-> "string", v |-> s, len |-> 0, el |-> NoEl]

Obj(f) == [t |-> "object", v |-> <<>>, len |-> 0, el |-> f]

Arr(n, f) == [t |-> "array", v |-> <<>>, len |-> n, el |-> f]

\* the keys "0", "1", ... of array elements and string characters
IdxKeys == <<"0", "1", "2", "3", "4", "5", "6", "7">>

KeyIndex(k) == CHOOSE i \in 1..Len(IdxKeys) : IdxKeys[i] = k

\* Array.isArray(x)
IsArray(x) == x.t = "array"

\* typeof x === 'object' && x !== null
IsNonNullObject(x) == x.t \in {"object", "array"}

\* typeof x === 'string'
IsString(x) == x.t = "string"

\* the truthiness of a value in a condition
Truthy(x) ==
    CASE x.t \in {"undefined", "null"} -> FALSE
      [] x.t = "boolean" -> x.v = <<"true">>
      [] x.t = "number" -> x.v # <<"0">>
      [] x.t = "string" -> x.v # <<>>
      [] OTHER -> TRUE

\* x[k]: a property read; a missing property, and any property of a
\* number or boolean, reads undefined; a string has its characters
Get(x, k) ==
    CASE x.t \in {"object", "array"} -> IF k \in DOMAIN x.el THEN x.el[k] ELSE Undefined
      [] x.t = "string" ->
            IF \E i \in 1..Len(x.v) : IdxKeys[i] = k
            THEN Str(<<x.v[KeyIndex(k)]>>)
            ELSE Undefined
      [] OTHER -> Undefined

\* the keys `for (let key in x)` visits
ForInKeys(x) ==
    CASE x.t \in {"object", "array"} -> DOMAIN x.el
      [] x.t = "string" -> {IdxKeys[i] : i \in 1..Len(x.v)}
      [] OTHER -> {}

(***************************************************************************)
(* Strings are sequences of characters.                                    *)
(***************************************************************************)
\* s.startsWith(p)
StartsWith(s, p) == Len(s) >= Len(p) /\ SubSeq(s, 1, Len(p)) = p

\* s.endsWith(p)
EndsWith(s, p) == Len(s) >= Len(p) /\ SubSeq(s, Len(s) - Len(p) + 1, Len(s)) = p

Http == <<"h", "t", "t", "p">>

(***************************************************************************)
(* removeUrlsFromObject (index.js 99-111).                                 *)
(***************************************************************************)
\* the length of an array after the assignments newObj[key] = ... for keys
ArrayLength(keys) ==
    IF keys = {} THEN 0
    ELSE CHOOSE n \in 1..Len(IdxKeys) :
            /\ IdxKeys[n] \in keys
            /\ \A k \in keys : KeyIndex(k) <= n

\* the keys of obj that removeUrlsFromObject assigns in newObj
KeptKeys(obj) ==
    {key \in ForInKeys(obj) :
        \/ IsNonNullObject(Get(obj, key))
        \/ ~IsString(Get(obj, key))
        \/ ~StartsWith(Get(obj, key).v, Http)}

\* a plausible slip: a nested object is copied as it is, not stripped
RECURSIVE removeUrlsShallow(_)
removeUrlsShallow(obj) ==
    LET kept == KeptKeys(obj)
        el == [key \in kept |-> Get(obj, key)]
    IN  IF IsArray(obj) THEN Arr(ArrayLength(kept), el) ELSE Obj(el)

RECURSIVE removeUrlsFromObject(_)
removeUrlsFromObject(obj) ==
    LET kept == KeptKeys(obj)
        el == [key \in kept |->
                 IF IsNonNullObject(Get(obj, key))
                 THEN removeUrlsFromObject(Get(obj, key))
                 ELSE Get(obj, key)]
    IN  IF IsArray(obj) THEN Arr(ArrayLength(kept), el) ELSE Obj(el)

(***************************************************************************)
(* String helpers of the admin-exception resolver and of the link header.  *)
(***************************************************************************)
\* the first index at which sep occurs in s, 0 when it does not
IndexOf(s, sep) ==
    LET hits == {i \in 1..(Len(s) - Len(sep) + 1) : SubSeq(s, i, i + Len(sep) - 1) = sep}
    IN  IF hits = {} THEN 0 ELSE CHOOSE i \in hits : \A j \in hits : i <= j

\* s.split(sep), sep not empty: "".split(sep) is [""]
RECURSIVE Split(_, _)
Split(s, sep) ==
    LET i == IndexOf(s, sep)
    IN  IF i = 0 THEN <<s>>
        ELSE <<SubSeq(s, 1, i - 1)>> \o Split(SubSeq(s, i + Len(sep), Len(s)), sep)

\* list.join(sep): [].join(sep) is ""
RECURSIVE Join(_, _)
Join(list, sep) ==
    IF list = <<>> THEN <<>>
    ELSE IF Len(list) = 1 THEN list[1]
    ELSE list[1] \o sep \o Join(Tail(list), sep)

\* s.trim()
RECURSIVE Trim(_)
Trim(s) ==
    IF s = <<>> THEN s
    ELSE IF Head(s) = " " THEN Trim(Tail(s))
    ELSE IF s[Len(s)] = " " THEN Trim(SubSeq(s, 1, Len(s) - 1))
    ELSE s

LowerChar(c) ==
    CASE c = "A" -> "a"
      [] c = "B" -> "b"
      [] c = "C" -> "c"
      [] c = "D" -> "d"
      [] OTHER -> c

\* s.toLowerCase()
ToLowerCase(s) == [i \in 1..Len(s) |-> LowerChar(s[i])]

\* list.includes(x)
Includes(list, x) == \E i \in 1..Len(list) : list[i] = x

\* s.slice(from, to) with JavaScript's (0-based) indexes: a negative index
\* counts from the end, the result is empty when from >= to
Slice(s, from, to) ==
    LET n == Len(s)
        a == IF from < 0 THEN (IF n + from < 0 THEN 0 ELSE n + from)
             ELSE IF from > n THEN n ELSE from
        b == IF to < 0 THEN (IF n + to < 0 THEN 0 ELSE n + to)
             ELSE IF to > n THEN n ELSE to
    IN  IF a >= b THEN <<>> ELSE SubSeq(s, a + 1, b)

(***************************************************************************)
(* getOrgOwners, getRepoAdmins and the admin-exception filter of main.     *)
(* A user of a response is [login, admin]: admin stands for                *)
(* user.permissions.admin.                                                 *)
(***************************************************************************)
\* response.data.map(user => user.login)
OrgOwnersOf(data) == [i \in 1..Len(data) |-> data[i].login]

\* orgOwners.map(owner => owner.toLowerCase())
LowerOwners(owners) == [i \in 1..Len(owners) |-> ToLowerCase(owners[i])]

\* a plausible slip: the client-side re-filter on permissions.admin is left out
RepoAdminsNoFilter(data) ==
    Join([i \in 1..Len(data) |-> data[i].login], <<";", " ">>)

\* getRepoAdmins: filter on permissions.admin, map to login, join('; ')
RepoAdminsOf(data) ==
    LET IsAdmin(user) == user.admin
        admins == SelectSeq(data, IsAdmin)
    IN  Join([i \in 1..Len(admins) |-> admins[i].login], <<";", " ">>)

\* main 213-215: split(';'), trim and lower-case each, drop the owners, join(';')
AdminsColumn(admins, orgOwners) ==
    LET parts == Split(admins, <<";">>)
        lowered == [i \in 1..Len(parts) |-> ToLowerCase(Trim(parts[i]))]
        NotOwner(admin) == ~Includes(orgOwners, admin)
    IN  Join(SelectSeq(lowered, NotOwner), <<";">>)

(***************************************************************************)
(* The link header of getRepos.  A header is a string of the tokens        *)
(* "<", a URL, ">", ";", " ", a rel="..." parameter, ",".                  *)
(***************************************************************************)
RelNext == "rel=\"next\""

\* a plausible slip: the first entry of the header is followed, whatever
\* its relation
NextUrlAnyRel(link) ==
    IF Truthy(link)
    THEN LET nextLink == Split(link.v, <<",", " ">>)[1]
         IN  Str(Slice(nextLink, IndexOf(nextLink, <<"<">>), IndexOf(nextLink, <<">">>) - 1))
    ELSE Null

\* a plausible slip: the next entry is found, but the URL is cut from the
\* whole header, between its first "<" and its first ">"
NextUrlOfHeader(link) ==
    IF Truthy(link)
    THEN LET links == Split(link.v, <<",", " ">>)
             IsNext(l) == EndsWith(l, <<RelNext>>)
         IN  IF SelectSeq(links, IsNext) # <<>>
             THEN Str(Slice(link.v, IndexOf(link.v, <<"<">>), IndexOf(link.v, <<">">>) - 1))
             ELSE Null
    ELSE Null

\* getRepos 82-93: the URL the walk goes to next, null when it stops
NextUrl(link) ==
    IF Truthy(link)
    THEN LET links == Split(link.v, <<",", " ">>)
             IsNext(l) == EndsWith(l, <<RelNext>>)
             found == SelectSeq(links, IsNext)
         IN  IF found # <<>>
             THEN LET nextLink == found[1]
                  IN  Str(Slice(nextLink, IndexOf(nextLink, <<"<">>), IndexOf(nextLink, <<">">>) - 1))
             ELSE Null
    ELSE Null

(***************************************************************************)
(* getBranchProtectionRules and the row of main.                           *)
(***************************************************************************)
\* a plausible slip: the unprotected rule is returned without its enabled flag
RuleNotFoundNoFlag(repo) ==
    [name |-> Str(<<repo.default_branch>>), protection |-> Obj(NoEl)]

\* getBranchProtectionRules 119-121: the rule of an unprotected branch
RuleNotFound(repo) ==
    [name |-> Str(<<repo.default_branch>>),
     protection |-> Obj([k \in {"enabled"} |-> Bool(FALSE)])]

\* getBranchProtectionRules 127-143
ParsedProtection(data) ==
    LET reviews == Get(data, "required_pull_request_reviews")
    IN  Obj([k \in {"required_pull_request_reviews", "required_pull_request_reviews_count",
                    "required_pull_request_reviews_code_owners", "required_signatures",
                    "enforce_admins", "restrictions", "required_linear_history",
                    "allow_force_pushes", "allow_deletions", "block_creations",
                    "required_conversation_resolution", "lock_branch", "allow_fork_syncing"} |->
            CASE k = "required_pull_request_reviews" -> Bool(Truthy(reviews))
              [] k = "required_pull_request_reviews_count" ->
                    IF Truthy(reviews) THEN Get(reviews, "required_approving_review_count")
                    ELSE Num("0")
              [] k = "required_pull_request_reviews_code_owners" ->
                    IF Truthy(reviews) THEN Get(reviews, "require_code_owner_reviews")
                    ELSE Bool(FALSE)
              [] k = "restrictions" -> Bool(Truthy(Get(data, "restrictions")))
              [] OTHER -> Get(data, k)])

\* getBranchProtectionRules 145-147
RuleOf(data) ==
    [name |-> Get(data, "name"), protection |-> removeUrlsFromObject(ParsedProtection(data))]

\* x == false
LooseEqFalse(x) ==
    CASE x.t = "boolean" -> x.v = <<"false">>
      [] x.t = "number" -> x.v = <<"0">>
      [] x.t = "string" -> x.v = <<>> \/ x.v = <<"0">>
      [] OTHER -> FALSE

\* a plausible slip: a setting without its wrapper is reported as false
EnabledOrFalse(w) == IF Truthy(w) THEN Get(w, "enabled") ELSE Bool(FALSE)

\* (w) ? w.enabled : undefined
EnabledOf(w) == IF Truthy(w) THEN Get(w, "enabled") ELSE Undefined

\* a plausible slip: the branch column is taken from the rule's name
RowOfRuleName(repo, rule, admins) ==
    [repo |-> Str(<<repo.name>>),
     branch |-> rule.name,
     enabled |-> Bool(~LooseEqFalse(Get(rule.protection, "enabled"))),
     required_pull_request_reviews_count |->
        Get(rule.protection, "required_pull_request_reviews_count"),
     required_pull_request_reviews_code_owners |->
        Get(rule.protection, "required_pull_request_reviews_code_owners"),
     restrictions |-> Get(rule.protection, "restrictions"),
     required_signatures |-> EnabledOf(Get(rule.protection, "required_signatures")),
     enforce_admins |-> EnabledOf(Get(rule.protection, "enforce_admins")),
     required_linear_history |-> EnabledOf(Get(rule.protection, "required_linear_history")),
     allow_force_pushes |-> EnabledOf(Get(rule.protection, "allow_force_pushes")),
     allow_deletions |-> EnabledOf(Get(rule.protection, "allow_deletions")),
     block_creations |-> EnabledOf(Get(rule.protection, "block_creations")),
     admins |-> Str(admins)]

\* main 219-236: the object given to parser.parse, one value per column
RowOf(repo, rule, admins) ==
    [repo |-> Str(<<repo.name>>),
     branch |-> Str(<<repo.default_branch>>),
     enabled |-> Bool(~LooseEqFalse(Get(rule.protection, "enabled"))),
     required_pull_request_reviews_count |->
        Get(rule.protection, "required_pull_request_reviews_count"),
     required_pull_request_reviews_code_owners |->
        Get(rule.protection, "required_pull_request_reviews_code_owners"),
     restrictions |-> Get(rule.protection, "restrictions"),
     required_signatures |-> EnabledOf(Get(rule.protection, "required_signatures")),
     enforce_admins |-> EnabledOf(Get(rule.protection, "enforce_admins")),
     required_linear_history |-> EnabledOf(Get(rule.protection, "required_linear_history")),
     allow_force_pushes |-> EnabledOf(Get(rule.protection, "allow_force_pushes")),
     allow_deletions |-> EnabledOf(Get(rule.protection, "allow_deletions")),
     block_creations |-> EnabledOf(Get(rule.protection, "block_creations")),
     admins |-> Str(admins)]

(***************************************************************************)
(* The GitHub API the run talks to.                                        *)
(***************************************************************************)
RepoNames == <<"r1", "r2", "r3", "r4">>

Branches == <<"main", "dev", "main", "trunk">>

\* the k-th repository of the organization
Repo(k) == [name |-> RepoNames[k], default_branch |-> Branches[k]]

\* the URLs of the pages of the repository listing; the first is
\* orgs/{org}/repos?per_page=100
PageUrls == <<"p1", "p2", "p3", "p4">>

OrgUrl == "orgs/org"

RECURSIVE Sum(_)
Sum(sizes) == IF sizes = <<>> THEN 0 ELSE Head(sizes) + Sum(Tail(sizes))

\* the sizes of the pages of a listing: up to MaxPages pages, MaxRepos
\* repositories; an organization without repositories has one empty page
PageSizes ==
    {<<0>>} \cup
    {sizes \in UNION {[1..n -> 1..MaxRepos] : n \in 1..MaxPages} : Sum(sizes) <= MaxRepos}

\* the listing with these page sizes: the repositories in order, cut into pages
PagesOf(sizes) ==
    [p \in 1..Len(sizes) |->
        [i \in 1..sizes[p] |-> Repo(Sum(SubSeq(sizes, 1, p - 1)) + i)]]

\* the concatenation of the pages of a listing
RECURSIVE Flatten(_)
Flatten(ps) == IF ps = <<>> THEN <<>> ELSE Head(ps) \o Flatten(Tail(ps))

\* one entry of a link header: <url>; rel="relation"
LinkEntry(k, rel) == <<"<", PageUrls[k], ">", ";", " ", rel>>

\* the link header GitHub sends with page k of n: prev, next, last, first,
\* those that exist, separated by ", "; none for a single page
LinkHeader(k, n) ==
    LET entries ==
            (IF k > 1 THEN <<LinkEntry(k - 1, "rel=\"prev\"")>> ELSE <<>>)
         \o (IF k < n THEN <<LinkEntry(k + 1, RelNext), LinkEntry(n, "rel=\"last\"")>> ELSE <<>>)
         \o (IF k > 1 THEN <<LinkEntry(1, "rel=\"first\"")>> ELSE <<>>)
    IN  IF entries = <<>> THEN Undefined ELSE Str(Join(entries, <<",", " ">>))

\* the page a URL of the listing names, 0 when it names none
PageOfUrl(u, n) ==
    IF u.t = "string" /\ Len(u.v) = 1 /\ \E k \in 1..n : PageUrls[k] = u.v[1]
    THEN CHOOSE k \in 1..n : PageUrls[k] = u.v[1]
    ELSE 0

Alice == <<"A", "l", "i", "c", "e">>

Bob == <<"b", "o", "b">>

Carol == <<"C", "a", "r", "o", "l">>

Dave == <<"D", "a", "v", "e">>

\* members?role=admin answers of the run
OwnersResponses ==
    {<<>>, <<[login |-> ToLowerCase(Alice)], [login |-> <<"B", "o", "b">>]>>}

\* collaborators?permission=admin answers of the run
CollabResponses ==
    {<<>>,
     <<[login |-> Alice, admin |-> TRUE], [login |-> Carol, admin |-> TRUE],
       [login |-> Dave, admin |-> FALSE]>>}

ApiUrl == Str(<<"h", "t", "t", "p", "s", ":">>)

\* {url, enabled}: the wrapper GitHub puts around a boolean setting
Wrapper(b) == Obj([k \in {"url", "enabled"} |-> IF k = "url" THEN ApiUrl ELSE Bool(b)])

\* branches/{branch}/protection answers of the run
ProtectionResponses ==
    {Obj([k \in {"url", "name", "required_pull_request_reviews", "required_signatures",
                 "enforce_admins", "restrictions", "block_creations"} |->
            CASE k = "url" -> ApiUrl
              [] k = "name" -> Str(<<"other">>)
              [] k = "required_pull_request_reviews" ->
                    Obj([j \in {"url", "required_approving_review_count",
                                "require_code_owner_reviews"} |->
                          CASE j = "url" -> ApiUrl
                            [] j = "required_approving_review_count" -> Num("2")
                            [] OTHER -> Bool(TRUE)])
              [] k = "required_signatures" -> Wrapper(TRUE)
              [] k = "enforce_admins" -> Wrapper(FALSE)
              [] k = "restrictions" -> Obj([j \in {"url"} |-> ApiUrl])
              [] OTHER -> Wrapper(TRUE)]),
     Obj([k \in {"url", "required_pull_request_reviews", "allow_deletions"} |->
            CASE k = "url" -> ApiUrl
              [] k = "required_pull_request_reviews" -> Obj([j \in {"url"} |-> ApiUrl])
              [] OTHER -> Wrapper(FALSE)])}

\* x-ratelimit-remaining of a successful response: absent, "0", or a
\* count that is not zero
RemainingHeaders == {Undefined, Str(<<"0">>), Str(<<"5", "7">>)}

\* x-ratelimit-reset of a response that arrives at time t (ms): absent,
\* or an epoch second shortly before or after t
ResetHeaders(t) ==
    {[present |-> FALSE, sec |-> 0]}
    \cup {[present |-> TRUE, sec |-> (t \div MsPerSec) + d] : d \in {-1, 3}}

(***************************************************************************)
(* The state of a run.                                                     *)
(***************************************************************************)
VARIABLES
    pc,          \* the await main() is at: "start", "validate", "owners", "repos",
                 \* "protection", "admins"; or how it ended: "done" (main resolved),
                 \* "exited" (process.exit(1)), "rejected" (main threw)
    wait,        \* what main() is suspended on: "response" (a request is outstanding),
                 \* "held" (the interceptor's timer), "delivered" (the response or
                 \* error is with the caller), "sleep" (the backoff), "none"
    req,         \* the request issued last
    resp,        \* the response or error in the transport's or the caller's hands;
                 \* the error that ended the run
    sent,        \* requests issued so far, by kind
    now,         \* the clock, ms
    due,         \* when the pending timer fires, ms
    n403,        \* 403 responses given so far
    nThrottled,  \* responses with x-ratelimit-remaining: 0 given so far
    pages,       \* the organization's repository listing, by page
    orgOwners,   \* main's orgOwners
    repos,       \* getRepos' repos, then main's
    url,         \* the url of the loop being run (main's, then getRepos')
    idx,         \* the position of `for (const repo of repos)`
    rule,        \* main's rule
    fileExists,  \* the report file has been created
    file,        \* its lines
    finished,    \* lookups that returned to main, by kind
    tree, stripped, restripped, upc,            \* removeUrlsFromObject on its own
    ownersData, collabData, ownerSet, admins, column, apc, \* the admin-exception resolver
                 \* on its own
    ownersMore, collabMore,                     \* the users the API lists on the pages
                 \* after the first of the owners and of the collaborators
    pdata, pstatus, prule, prow, ppc,           \* getBranchProtectionRules and the row
                 \* of main on their own
    cliToken, cliOrgName, envToken, envOrgName, \* the start of the process: the command
    githubToken, orgName, spc, lookups,         \* line, the environment, lines 7-30
    linkEntries, nextUrl, lpc                   \* the link parsing of getRepos on its own

\* the kinds of request: the organization lookup, the owners, a page of the
\* repository listing, a branch's protection, a repository's collaborators
Kinds == {"org", "owners", "repos", "protection", "admins"}

runVars == <<pc, wait, req, resp, sent, now, due, n403, nThrottled, pages,
             orgOwners, repos, url, idx, rule, fileExists, file, finished>>

stripVars == <<tree, stripped, restripped, upc>>

resolverVars == <<ownersData, collabData, ownerSet, admins, column, apc, ownersMore, collabMore>>

protectionVars == <<pdata, pstatus, prule, prow, ppc>>

startupVars == <<cliToken, cliOrgName, envToken, envOrgName, githubToken, orgName,
                 spc, lookups>>

linkVars == <<linkEntries, nextUrl, lpc>>

vars == <<runVars, stripVars, resolverVars, protectionVars, startupVars, linkVars>>

NoResponse ==
    [status |-> -1, remaining |-> Undefined, reset |-> [present |-> FALSE, sec |-> 0],
     link |-> Undefined, data |-> <<>>]

\* an error of axios: status 0 stands for an error without a response
\* (network failure, timeout)
ErrorResponse(status) == [NoResponse EXCEPT !.status = status]

NoRule == [name |-> Undefined, protection |-> Undefined]

\* the protection columns of the report
ProtectionColumns ==
    {"required_pull_request_reviews_count", "required_pull_request_reviews_code_owners",
     "restrictions", "required_signatures", "enforce_admins", "required_linear_history",
     "allow_force_pushes", "allow_deletions", "block_creations"}

\* the columns of the report (main 207, 219-236)
Columns == {"repo", "branch", "enabled", "admins"} \cup ProtectionColumns

\* the header line of the report (main 207): a line whose cells are the
\* names of the columns, the last written "admins "
HeaderLine == [c \in Columns |-> Str(<<IF c = "admins" THEN "admins " ELSE c>>)]

StripIdle ==
    /\ tree = Null
    /\ stripped = Null
    /\ restripped = Null
    /\ upc = "off"

ResolverIdle ==
    /\ ownersData = <<>>
    /\ collabData = <<>>
    /\ ownerSet = <<>>
    /\ admins = <<>>
    /\ column = <<>>
    /\ apc = "off"
    /\ ownersMore = <<>>
    /\ collabMore = <<>>

\* a row not yet made
NoRow == [c \in Columns |-> Undefined]

ProtectionIdle ==
    /\ pdata = Null
    /\ pstatus = 0
    /\ prule = NoRule
    /\ prow = NoRow
    /\ ppc = "off"

StartupIdle ==
    /\ cliToken = Undefined
    /\ cliOrgName = Undefined
    /\ envToken = Undefined
    /\ envOrgName = Undefined
    /\ githubToken = Undefined
    /\ orgName = Undefined
    /\ spc = "off"
    /\ lookups = 0

LinkIdle ==
    /\ linkEntries = <<>>
    /\ nextUrl = Null
    /\ lpc = "off"

\* no run: the state of the run while a function is exercised on its own
RunIdle ==
    /\ pc = "off"
    /\ wait = "none"
    /\ req = [kind |-> "none", target |-> Null]
    /\ resp = NoResponse
    /\ sent = [k \in Kinds |-> 0]
    /\ now = StartMs
    /\ due = 0
    /\ n403 = 0
    /\ nThrottled = 0
    /\ pages = <<>>
    /\ orgOwners = <<>>
    /\ repos = <<>>
    /\ url = Null
    /\ idx = 0
    /\ rule = NoRule
    /\ fileExists = FALSE
    /\ file = <<>>
    /\ finished = [k \in Kinds |-> 0]

RunInit ==
    /\ pc = "start"
    /\ wait = "none"
    /\ req = [kind |-> "none", target |-> Null]
    /\ resp = NoResponse
    /\ sent = [k \in Kinds |-> 0]
    /\ now = StartMs
    /\ due = 0
    /\ n403 = 0
    /\ nThrottled = 0
    /\ pages \in {PagesOf(sizes) : sizes \in PageSizes}
    /\ orgOwners = <<>>
    /\ repos = <<>>
    /\ url = Null
    /\ idx = 0
    /\ rule = NoRule
    /\ fileExists = FALSE
    /\ file = <<>>
    /\ finished = [k \in Kinds |-> 0]

Init == RunInit /\ StripIdle /\ ResolverIdle /\ ProtectionIdle /\ StartupIdle /\ LinkIdle

(***************************************************************************)
(* The transport: axiosInstance.get and the response interceptor.          *)
(***************************************************************************)
\* axiosInstance.get(target): the request goes out, the caller awaits
Issue(kind, target) ==
    /\ req' = [kind |-> kind, target |-> target]
    /\ sent' = [sent EXCEPT ![kind] = @ + 1]
    /\ wait' = "response"

\* setTimeout(f, ms): a delay that is not in 1..TimeoutMax becomes 1 ms
TimerMs(ms) == IF ms >= 1 /\ ms <= TimeoutMax THEN ms ELSE 1

\* a plausible slip: the delay is taken from the reset time to now's
\* second the wrong way round
InterceptorDelayReversed(r, t) ==
    IF r.reset.present
    THEN TimerMs(((t \div MsPerSec) - r.reset.sec) * MsPerSec)
    ELSE TimerMs(0)

\* interceptor 46-52: delay = resetTime - floor(getTime() / 1000), the timer
\* is set to delay * 1000; without the reset header the delay is NaN
InterceptorDelay(r, t) ==
    IF r.reset.present
    THEN TimerMs((r.reset.sec - (t \div MsPerSec)) * MsPerSec)
    ELSE TimerMs(0)

\* interceptor 44-45: remaining && remaining === '0'
QuotaExhausted(r) == Truthy(r.remaining) /\ r.remaining = Str(<<"0">>)

\* the bodies (and link headers) the API can answer the outstanding request with
Answers ==
    CASE req.kind = "org" -> {[link |-> Undefined, data |-> <<>>]}
      [] req.kind = "owners" -> {[link |-> Undefined, data |-> d] : d \in OwnersResponses}
      [] req.kind = "repos" ->
            LET k == PageOfUrl(req.target, Len(pages))
            IN  IF k = 0 THEN {}
                ELSE {[link |-> LinkHeader(k, Len(pages)), data |-> pages[k]]}
      [] req.kind = "protection" -> {[link |-> Undefined, data |-> d] : d \in ProtectionResponses}
      [] req.kind = "admins" -> {[link |-> Undefined, data |-> d] : d \in CollabResponses}
      [] OTHER -> {}

\* an error comes back: the interceptor's error handler rejects with it (58-60)
ArriveError ==
    /\ wait = "response"
    /\ \E status \in {0, 401, 403, 404, 500} :
        /\ status = 403 => n403 < Max403
        /\ n403' = IF status = 403 THEN n403 + 1 ELSE n403
        /\ resp' = ErrorResponse(status)
    /\ wait' = "delivered"
    /\ UNCHANGED <<pc, req, sent, now, due, nThrottled, pages, orgOwners, repos,
                   url, idx, rule, fileExists, file, finished>>
    /\ UNCHANGED <<stripVars, resolverVars, protectionVars, startupVars, linkVars>>

\* a 2xx response comes back: the interceptor (42-57) hands it on, or holds
\* it on a timer when the quota reads zero
ArriveSuccess ==
    /\ wait = "response"
    /\ \E a \in Answers, remaining \in RemainingHeaders, reset \in ResetHeaders(now) :
        LET r == [status |-> 200, remaining |-> remaining, reset |-> reset,
                  link |-> a.link, data |-> a.data]
        IN  /\ remaining = Str(<<"0">>) => nThrottled < MaxThrottled
            /\ remaining # Str(<<"0">>) => reset.present /\ reset.sec > now \div MsPerSec
            /\ resp' = r
            /\ IF QuotaExhausted(r)
               THEN /\ wait' = "held"
                    /\ due' = now + InterceptorDelay(r, now)
                    /\ nThrottled' = nThrottled + 1
               ELSE /\ wait' = "delivered"
                    /\ UNCHANGED <<due, nThrottled>>
    /\ UNCHANGED <<pc, req, sent, now, n403, pages, orgOwners, repos, url, idx, rule,
                   fileExists, file, finished>>
    /\ UNCHANGED <<stripVars, resolverVars, protectionVars, startupVars, linkVars>>

\* a plausible slip: the timer's callback does not resolve the promise, the
\* response stays with the interceptor
TimerFireNoResolve ==
    /\ wait = "held"
    /\ now' = IF due > now THEN due ELSE now
    /\ UNCHANGED <<pc, wait, req, resp, sent, due, n403, nThrottled, pages, orgOwners,
                   repos, url, idx, rule, fileExists, file, finished>>
    /\ UNCHANGED <<stripVars, resolverVars, protectionVars, startupVars, linkVars>>

\* the interceptor's timer fires: resolve(response)
TimerFire ==
    /\ wait = "held"
    /\ now' = IF due > now THEN due ELSE now
    /\ wait' = "delivered"
    /\ UNCHANGED <<pc, req, resp, sent, due, n403, nThrottled, pages, orgOwners,
                   repos, url, idx, rule, fileExists, file, finished>>
    /\ UNCHANGED <<stripVars, resolverVars, protectionVars, startupVars, linkVars>>

(***************************************************************************)
(* main() and the functions it awaits, one action per continuation.        *)
(***************************************************************************)
\* error.response && error.response.status === status
ErrorIs(status) == resp.status = status

Succeeded == resp.status = 200

\* the URL of a repository's endpoint
RepoUrl(repo, endpoint) == Str(<<"repos", repo.name, repo.default_branch, endpoint>>)

\* main 165-177: the first pass of the validation loop
Start ==
    /\ pc = "start"
    /\ pc' = "validate"
    /\ url' = Str(<<OrgUrl>>)
    /\ Issue("org", Str(<<OrgUrl>>))
    /\ UNCHANGED <<resp, now, due, n403, nThrottled, pages, orgOwners, repos,
                   idx, rule, fileExists, file, finished>>
    /\ UNCHANGED <<stripVars, resolverVars, protectionVars, startupVars, linkVars>>

\* main 194-197: the organization exists; getOrgOwners sends its request
ValidateOk ==
    /\ pc = "validate" /\ wait = "delivered" /\ Succeeded
    /\ url' = Null
    /\ pc' = "owners"
    /\ Issue("owners", Str(<<OrgUrl, "members">>))
    /\ UNCHANGED <<now, due, n403, nThrottled, pages, orgOwners, repos,
                   idx, rule, fileExists, file>>
    /\ finished' = [finished EXCEPT !["org"] = @ + 1]
    /\ resp' = NoResponse
    /\ UNCHANGED <<stripVars, resolverVars, protectionVars, startupVars, linkVars>>

\* a plausible slip: the error is reported but the process is not ended,
\* the loop is left and main goes on to getOrgOwners
ValidateExitGoesOn ==
    /\ pc = "validate" /\ wait = "delivered"
    /\ ErrorIs(401) \/ ErrorIs(404)
    /\ url' = Null
    /\ pc' = "owners"
    /\ Issue("owners", Str(<<OrgUrl, "members">>))
    /\ UNCHANGED <<resp, now, due, n403, nThrottled, pages, orgOwners, repos,
                   idx, rule, fileExists, file, finished>>
    /\ UNCHANGED <<stripVars, resolverVars, protectionVars, startupVars, linkVars>>

\* main 179-184: 401 or 404, process.exit(1)
ValidateExit ==
    /\ pc = "validate" /\ wait = "delivered"
    /\ ErrorIs(401) \/ ErrorIs(404)
    /\ pc' = "exited"
    /\ wait' = "none"
    /\ UNCHANGED <<req, resp, sent, now, due, n403, nThrottled, pages, orgOwners,
                   repos, url, idx, rule, fileExists, file, finished>>
    /\ UNCHANGED <<stripVars, resolverVars, protectionVars, startupVars, linkVars>>

\* main 185-188: 403, await sleep(60000)
ValidateRateLimited ==
    /\ pc = "validate" /\ wait = "delivered" /\ ErrorIs(403)
    /\ wait' = "sleep"
    /\ due' = now + TimerMs(BackoffMs)
    /\ UNCHANGED <<pc, req, resp, sent, now, n403, nThrottled, pages, orgOwners,
                   repos, url, idx, rule, fileExists, file, finished>>
    /\ UNCHANGED <<stripVars, resolverVars, protectionVars, startupVars, linkVars>>

\* main 189-192: any other error is thrown, main rejects
ValidateUnknown ==
    /\ pc = "validate" /\ wait = "delivered"
    /\ ~Succeeded /\ ~ErrorIs(401) /\ ~ErrorIs(404) /\ ~ErrorIs(403)
    /\ pc' = "rejected"
    /\ wait' = "none"
    /\ UNCHANGED <<req, resp, sent, now, due, n403, nThrottled, pages, orgOwners,
                   repos, url, idx, rule, fileExists, file, finished>>
    /\ UNCHANGED <<stripVars, resolverVars, protectionVars, startupVars, linkVars>>

\* the backoff is over: `continue`, the loop sends the request to url again
\* (main 188, 175-177; getRepos 74, 67-69)
SleepDone ==
    /\ wait = "sleep"
    /\ now' = IF due > now THEN due ELSE now
    /\ Issue(req.kind, url)
    /\ UNCHANGED <<pc, resp, due, n403, nThrottled, pages, orgOwners, repos, url,
                   idx, rule, fileExists, file, finished>>
    /\ UNCHANGED <<stripVars, resolverVars, protectionVars, startupVars, linkVars>>

\* getOrgOwners 151-152, main 197-200, getRepos 63-69: the owners are
\* lower-cased and getRepos sends its first request
OwnersOk ==
    /\ pc = "owners" /\ wait = "delivered" /\ Succeeded
    /\ orgOwners' = LowerOwners(OrgOwnersOf(resp.data))
    /\ repos' = <<>>
    /\ url' = Str(<<PageUrls[1]>>)
    /\ pc' = "repos"
    /\ Issue("repos", Str(<<PageUrls[1]>>))
    /\ UNCHANGED <<now, due, n403, nThrottled, pages, idx, rule,
                   fileExists, file>>
    /\ finished' = [finished EXCEPT !["owners"] = @ + 1]
    /\ resp' = NoResponse
    /\ UNCHANGED <<stripVars, resolverVars, protectionVars, startupVars, linkVars>>

\* getOrgOwners has no catch: any error rejects main
OwnersError ==
    /\ pc = "owners" /\ wait = "delivered" /\ ~Succeeded
    /\ pc' = "rejected"
    /\ wait' = "none"
    /\ UNCHANGED <<req, resp, sent, now, due, n403, nThrottled, pages, orgOwners,
                   repos, url, idx, rule, fileExists, file, finished>>
    /\ UNCHANGED <<stripVars, resolverVars, protectionVars, startupVars, linkVars>>

\* a plausible slip: the two lookups of the loop are swapped, the
\* collaborators of the repository are requested first
IssueAdminsFirst(list, i) == Issue("admins", RepoUrl(list[i], "collaborators"))

\* the request of getBranchProtectionRules for the repository at position i
IssueProtection(list, i) == Issue("protection", RepoUrl(list[i], "protection"))

\* getRepos 80-93 and, when the walk ends, main 200-211: the page is appended;
\* with a next link the walk goes on, else the report is created with its
\* header and the loop over the repositories begins
ReposOk ==
    /\ pc = "repos" /\ wait = "delivered" /\ Succeeded
    /\ repos' = repos \o resp.data
    /\ url' = NextUrl(resp.link)
    /\ IF Truthy(url')
       THEN /\ Issue("repos", url')
            /\ UNCHANGED <<pc, idx, fileExists, file>>
       ELSE /\ fileExists' = TRUE
            /\ file' = <<HeaderLine>>
            /\ IF repos' = <<>>
               THEN /\ pc' = "done"
                    /\ wait' = "none"
                    /\ UNCHANGED <<req, sent, idx>>
               ELSE /\ pc' = "protection"
                    /\ idx' = 1
                    /\ IssueProtection(repos', 1)
    /\ UNCHANGED <<now, due, n403, nThrottled, pages, orgOwners, rule>>
    /\ finished' = [finished EXCEPT !["repos"] = @ + 1]
    /\ resp' = NoResponse
    /\ UNCHANGED <<stripVars, resolverVars, protectionVars, startupVars, linkVars>>

\* a plausible slip: 401 is taken for a rate limit too
ReposRateLimitedOr401 ==
    /\ pc = "repos" /\ wait = "delivered"
    /\ ErrorIs(403) \/ ErrorIs(401)
    /\ wait' = "sleep"
    /\ due' = now + TimerMs(BackoffMs)
    /\ UNCHANGED <<pc, req, resp, sent, now, n403, nThrottled, pages, orgOwners,
                   repos, url, idx, rule, fileExists, file, finished>>
    /\ UNCHANGED <<stripVars, resolverVars, protectionVars, startupVars, linkVars>>

\* getRepos 71-74: 403, await sleep(60000)
ReposRateLimited ==
    /\ pc = "repos" /\ wait = "delivered" /\ ErrorIs(403)
    /\ wait' = "sleep"
    /\ due' = now + TimerMs(BackoffMs)
    /\ UNCHANGED <<pc, req, resp, sent, now, n403, nThrottled, pages, orgOwners,
                   repos, url, idx, rule, fileExists, file, finished>>
    /\ UNCHANGED <<stripVars, resolverVars, protectionVars, startupVars, linkVars>>

\* getRepos 75-77: any other error is thrown again, main rejects
ReposError ==
    /\ pc = "repos" /\ wait = "delivered" /\ ~Succeeded /\ ~ErrorIs(403)
    /\ pc' = "rejected"
    /\ wait' = "none"
    /\ UNCHANGED <<req, resp, sent, now, due, n403, nThrottled, pages, orgOwners,
                   repos, url, idx, rule, fileExists, file, finished>>
    /\ UNCHANGED <<stripVars, resolverVars, protectionVars, startupVars, linkVars>>

\* getBranchProtectionRules 127-147, main 211-212, getRepoAdmins 157
ProtectionOk ==
    /\ pc = "protection" /\ wait = "delivered" /\ Succeeded
    /\ rule' = RuleOf(resp.data)
    /\ finished' = [finished EXCEPT !["protection"] = @ + 1]
    /\ pc' = "admins"
    /\ Issue("admins", RepoUrl(repos[idx], "collaborators"))
    /\ UNCHANGED <<now, due, n403, nThrottled, pages, orgOwners, repos, url,
                   idx, fileExists, file>>
    /\ resp' = NoResponse
    /\ UNCHANGED <<stripVars, resolverVars, protectionVars, startupVars, linkVars>>

\* a plausible slip: on 404 the repository is skipped, no row is written for it
ProtectionNotFoundSkips ==
    /\ pc = "protection" /\ wait = "delivered" /\ ErrorIs(404)
    /\ finished' = [finished EXCEPT !["protection"] = @ + 1]
    /\ IF idx < Len(repos)
       THEN /\ idx' = idx + 1
            /\ IssueProtection(repos, idx + 1)
            /\ UNCHANGED pc
       ELSE /\ pc' = "done"
            /\ wait' = "none"
            /\ UNCHANGED <<req, sent, idx>>
    /\ UNCHANGED <<resp, now, due, n403, nThrottled, pages, orgOwners, repos, url, rule,
                   fileExists, file>>
    /\ UNCHANGED <<stripVars, resolverVars, protectionVars, startupVars, linkVars>>

\* getBranchProtectionRules 119-121: 404, the branch is not protected
ProtectionNotFound ==
    /\ pc = "protection" /\ wait = "delivered" /\ ErrorIs(404)
    /\ rule' = RuleNotFound(repos[idx])
    /\ finished' = [finished EXCEPT !["protection"] = @ + 1]
    /\ pc' = "admins"
    /\ Issue("admins", RepoUrl(repos[idx], "collaborators"))
    /\ UNCHANGED <<resp, now, due, n403, nThrottled, pages, orgOwners, repos, url,
                   idx, fileExists, file>>
    /\ UNCHANGED <<stripVars, resolverVars, protectionVars, startupVars, linkVars>>

\* getBranchProtectionRules 122-124: any other error is thrown again
ProtectionError ==
    /\ pc = "protection" /\ wait = "delivered" /\ ~Succeeded /\ ~ErrorIs(404)
    /\ pc' = "rejected"
    /\ wait' = "none"
    /\ UNCHANGED <<req, resp, sent, now, due, n403, nThrottled, pages, orgOwners,
                   repos, url, idx, rule, fileExists, file, finished>>
    /\ UNCHANGED <<stripVars, resolverVars, protectionVars, startupVars, linkVars>>

\* a plausible slip: the row is written with writeFileSync, which replaces
\* the file's content
Overwritten(lines, row) == <<row>>

\* main 240: fs.appendFileSync(fileName, csv + '\n')
Appended(lines, row) == Append(lines, row)

\* getRepoAdmins 158-162, main 213-242: the row is appended to the report;
\* the loop goes to the next repository, or main returns
AdminsOk ==
    /\ pc = "admins" /\ wait = "delivered" /\ Succeeded
    /\ finished' = [finished EXCEPT !["admins"] = @ + 1]
    /\ file' = Appended(file, RowOf(repos[idx], rule,
                                    AdminsColumn(RepoAdminsOf(resp.data), orgOwners)))
    /\ IF idx < Len(repos)
       THEN /\ idx' = idx + 1
            /\ pc' = "protection"
            /\ IssueProtection(repos, idx + 1)
       ELSE /\ pc' = "done"
            /\ wait' = "none"
            /\ UNCHANGED <<req, sent, idx>>
    /\ UNCHANGED <<now, due, n403, nThrottled, pages, orgOwners, repos, url,
                   rule, fileExists>>
    /\ resp' = NoResponse
    /\ UNCHANGED <<stripVars, resolverVars, protectionVars, startupVars, linkVars>>

\* a plausible slip: a failed collaborators lookup is swallowed, the row is
\* written with an empty admins column and the loop goes on
AdminsErrorSwallowed ==
    /\ pc = "admins" /\ wait = "delivered" /\ ~Succeeded
    /\ finished' = [finished EXCEPT !["admins"] = @ + 1]
    /\ file' = Appended(file, RowOf(repos[idx], rule, <<>>))
    /\ IF idx < Len(repos)
       THEN /\ idx' = idx + 1
            /\ pc' = "protection"
            /\ IssueProtection(repos, idx + 1)
       ELSE /\ pc' = "done"
            /\ wait' = "none"
            /\ UNCHANGED <<req, sent, idx>>
    /\ UNCHANGED <<resp, now, due, n403, nThrottled, pages, orgOwners, repos, url,
                   rule, fileExists>>
    /\ UNCHANGED <<stripVars, resolverVars, protectionVars, startupVars, linkVars>>

\* getRepoAdmins has no catch: any error rejects main
AdminsError ==
    /\ pc = "admins" /\ wait = "delivered" /\ ~Succeeded
    /\ pc' = "rejected"
    /\ wait' = "none"
    /\ UNCHANGED <<req, resp, sent, now, due, n403, nThrottled, pages, orgOwners,
                   repos, url, idx, rule, fileExists, file, finished>>
    /\ UNCHANGED <<stripVars, resolverVars, protectionVars, startupVars, linkVars>>

RunNext ==
    \/ Start
    \/ ArriveError
    \/ ArriveSuccess
    \/ TimerFire
    \/ SleepDone
    \/ ValidateOk
    \/ ValidateExit
    \/ ValidateRateLimited
    \/ ValidateUnknown
    \/ OwnersOk
    \/ OwnersError
    \/ ReposOk
    \/ ReposRateLimited
    \/ ReposError
    \/ ProtectionOk
    \/ ProtectionNotFound
    \/ ProtectionError
    \/ AdminsOk
    \/ AdminsError

Next == RunNext

Spec == Init /\ [][Next]_vars

\* the row of a repository can be written: the guard of AdminsOk, which is
\* enabled exactly when it holds
RowDue == pc = "admins" /\ wait = "delivered" /\ Succeeded

\* every request is answered (axios gives up after its timeout of 10 s), every
\* timer fires and every continuation of main runs: weak fairness of the
\* steps of the run, that of AdminsOk with its enabling condition written out
Fairness ==
    /\ WF_vars(\/ Start \/ ArriveError \/ ArriveSuccess \/ TimerFire \/ SleepDone
               \/ ValidateOk \/ ValidateExit \/ ValidateRateLimited \/ ValidateUnknown
               \/ OwnersOk \/ OwnersError
               \/ ReposOk \/ ReposRateLimited \/ ReposError
               \/ ProtectionOk \/ ProtectionNotFound \/ ProtectionError
               \/ AdminsError)
    /\ ([]<>(~RowDue) \/ []<><<AdminsOk>>_vars)

\* a run over a listing of two pages of one repository each
InitLive == Init /\ pages = PagesOf(<<1, 1>>)

SpecLive == InitLive /\ [][Next]_vars /\ Fairness

(***************************************************************************)
(* removeUrlsFromObject on its own, over every tree of scalars, lists and  *)
(* maps of up to MaxNodes nodes.                                           *)
(***************************************************************************)
\* a URL, a proper prefix of "http", a string that holds "http" but does not
\* start with it, a number, null, a boolean
Scalars ==
    {Str(<<"h", "t", "t", "p", ":">>), Str(<<"h", "t", "t">>),
     Str(<<"x", "h", "t", "t", "p">>), Num("1"), Null, Bool(TRUE)}

MapKeys == <<"url", "enabled", "name", "users", "teams">>

RECURSIVE Size(_)
Size(x) ==
    IF IsNonNullObject(x)
    THEN 1 + Sum([i \in 1..Cardinality(DOMAIN x.el) |->
                    Size(x.el[CHOOSE k \in DOMAIN x.el :
                                Cardinality({j \in DOMAIN x.el :
                                    \E a, b \in 1..Len(IdxKeys \o MapKeys) :
                                        /\ (IdxKeys \o MapKeys)[a] = j
                                        /\ (IdxKeys \o MapKeys)[b] = k
                                        /\ a <= b}) = i])])
    ELSE 1

\* the list and the map whose elements are those of a sequence of trees
ListOf(f) == Arr(Len(f), [k \in {IdxKeys[i] : i \in 1..Len(f)} |-> f[KeyIndex(k)]])

MapOf(f) ==
    Obj([k \in {MapKeys[i] : i \in 1..Len(f)} |-> f[CHOOSE i \in 1..Len(f) : MapKeys[i] = k]])

RECURSIVE TreesUpTo(_), ForestsUpTo(_)
\* the trees of at most n nodes
TreesUpTo(n) ==
    IF n < 1 THEN {}
    ELSE Scalars
         \cup {ListOf(f) : f \in ForestsUpTo(n - 1)}
         \cup {MapOf(f) : f \in ForestsUpTo(n - 1)}

\* the sequences of trees of at most n nodes in all
ForestsUpTo(n) ==
    {<<>>} \cup UNION {{<<x>> \o f : f \in ForestsUpTo(n - Size(x))} : x \in TreesUpTo(n)}

StripInit ==
    /\ tree \in TreesUpTo(MaxNodes)
    /\ stripped = Null
    /\ restripped = Null
    /\ upc = "in"

\* removeUrlsFromObject(tree)
StripOnce ==
    /\ upc = "in"
    /\ stripped' = removeUrlsFromObject(tree)
    /\ upc' = "once"
    /\ UNCHANGED <<tree, restripped, runVars, resolverVars, protectionVars, startupVars, linkVars>>

\* removeUrlsFromObject of the result
StripTwice ==
    /\ upc = "once"
    /\ restripped' = removeUrlsFromObject(stripped)
    /\ upc' = "twice"
    /\ UNCHANGED <<tree, stripped, runVars, resolverVars, protectionVars, startupVars, linkVars>>

StripNext ==
    \/ StripOnce
    \/ StripTwice

InitStrip == RunIdle /\ StripInit /\ ResolverIdle /\ ProtectionIdle /\ StartupIdle /\ LinkIdle

SpecStrip == InitStrip /\ [][StripNext]_vars

(***************************************************************************)
(* The admin-exception resolver on its own: getOrgOwners and main 198,     *)
(* getRepoAdmins, main 213-215, over every owners and collaborators answer *)
(* of up to MaxOwners and MaxCollab users.                                 *)
(***************************************************************************)
OwnerUsers == {[login |-> l] : l \in {ToLowerCase(Alice), <<"B", "o", "b">>, Carol}}

CollabUsers == {[login |-> l, admin |-> a] : l \in {Alice, Bob, Carol, Dave}, a \in BOOLEAN}

SeqsUpTo(S, n) == UNION {[1..m -> S] : m \in 0..n}

ResolverInit ==
    /\ ownersData \in SeqsUpTo(OwnerUsers, MaxOwners)
    /\ collabData \in SeqsUpTo(CollabUsers, MaxCollab)
    /\ ownerSet = <<>>
    /\ admins = <<>>
    /\ column = <<>>
    /\ apc = "in"
    /\ ownersMore = <<>>
    /\ collabMore = <<>>

\* getOrgOwners 152, main 198
ResolveOwners ==
    /\ apc = "in"
    /\ ownerSet' = LowerOwners(OrgOwnersOf(ownersData))
    /\ apc' = "owners"
    /\ UNCHANGED <<ownersData, collabData, ownersMore, collabMore, admins, column, runVars, stripVars, protectionVars, startupVars, linkVars>>

\* getRepoAdmins 158-162
ResolveAdmins ==
    /\ apc = "owners"
    /\ admins' = RepoAdminsOf(collabData)
    /\ apc' = "admins"
    /\ UNCHANGED <<ownersData, collabData, ownersMore, collabMore, ownerSet, column, runVars, stripVars, protectionVars, startupVars, linkVars>>

\* main 213-215
ResolveColumn ==
    /\ apc = "admins"
    /\ column' = AdminsColumn(admins, ownerSet)
    /\ apc' = "column"
    /\ UNCHANGED <<ownersData, collabData, ownersMore, collabMore, ownerSet, admins, runVars, stripVars, protectionVars, startupVars, linkVars>>

ResolverNext ==
    \/ ResolveOwners
    \/ ResolveAdmins
    \/ ResolveColumn

InitResolver == RunIdle /\ StripIdle /\ ResolverInit /\ ProtectionIdle /\ StartupIdle /\ LinkIdle

SpecResolver == InitResolver /\ [][ResolverNext]_vars

\* the resolver against listings that span pages: getOrgOwners and
\* getRepoAdmins send one request each (151, 157), which the API answers with
\* the first page of the listing (30 users unless per_page is given) and a
\* link header to the next; ownersMore and collabMore are the users of the
\* later pages
PagedInit ==
    /\ ownersData \in SeqsUpTo(OwnerUsers, 1)
    /\ ownersMore \in SeqsUpTo(OwnerUsers, 1)
    /\ collabData \in SeqsUpTo(CollabUsers, 1)
    /\ collabMore \in SeqsUpTo(CollabUsers, 1)
    /\ ownerSet = <<>>
    /\ admins = <<>>
    /\ column = <<>>
    /\ apc = "in"

InitPaged ==
    RunIdle /\ StripIdle /\ PagedInit /\ ProtectionIdle /\ StartupIdle /\ LinkIdle

SpecPaged == InitPaged /\ [][ResolverNext]_vars

(***************************************************************************)
(* getBranchProtectionRules and the row of main on their own, over the     *)
(* protection answers of the API: each setting present or absent.          *)
(***************************************************************************)
\* the settings GitHub wraps as {url, enabled}
WrappedSettings ==
    {"required_signatures", "enforce_admins", "required_linear_history",
     "allow_force_pushes", "allow_deletions", "block_creations"}

\* the object whose properties are the entries of f that are not Undefined:
\* a JSON answer has no property for a setting that is absent
Present(f) == Obj([k \in {j \in DOMAIN f : f[j] # Undefined} |-> f[k]])

\* required_pull_request_reviews of an answer: absent, or an object with or
\* without its count and its code-owner flag
ReviewsValues ==
    {Undefined}
    \cup {Present([k \in {"url", "required_approving_review_count",
                          "require_code_owner_reviews"} |->
                    CASE k = "url" -> ApiUrl
                      [] k = "required_approving_review_count" -> count
                      [] OTHER -> owners]) :
            count \in {Undefined, Num("0"), Num("2")},
            owners \in {Undefined, Bool(TRUE)}}

\* restrictions of an answer: absent, or an object with its lists
RestrictionsValues ==
    {Undefined,
     Obj([k \in {"url", "users"} |-> IF k = "url" THEN ApiUrl ELSE Arr(0, NoEl)])}

\* the answers of branches/{branch}/protection
ProtectionAnswers ==
    {Present([k \in WrappedSettings \cup {"url", "name", "required_pull_request_reviews",
                                          "restrictions"} |->
                CASE k = "url" -> ApiUrl
                  [] k = "name" -> name
                  [] k = "required_pull_request_reviews" -> reviews
                  [] k = "restrictions" -> restrictions
                  [] OTHER -> wrappers[k]]) :
        name \in {Undefined, Str(<<"other">>)},
        reviews \in ReviewsValues,
        restrictions \in RestrictionsValues,
        wrappers \in [WrappedSettings -> {Undefined, Wrapper(TRUE), Wrapper(FALSE)}]}

ProtectionInit ==
    /\ \/ pstatus = 200 /\ pdata \in ProtectionAnswers
       \/ pstatus = 404 /\ pdata = Null
    /\ prule = NoRule
    /\ prow = NoRow
    /\ ppc = "in"

\* getBranchProtectionRules 127-147: the lookup succeeded
FetchOk ==
    /\ ppc = "in" /\ pstatus = 200
    /\ prule' = RuleOf(pdata)
    /\ ppc' = "rule"
    /\ UNCHANGED <<pdata, pstatus, prow, runVars, stripVars, resolverVars, startupVars, linkVars>>

\* getBranchProtectionRules 119-121: the lookup answered 404
FetchNotFound ==
    /\ ppc = "in" /\ pstatus = 404
    /\ prule' = RuleNotFound(Repo(1))
    /\ ppc' = "rule"
    /\ UNCHANGED <<pdata, pstatus, prow, runVars, stripVars, resolverVars, startupVars, linkVars>>

\* main 219-236: the row of the repository, without admin exceptions
MakeRow ==
    /\ ppc = "rule"
    /\ prow' = RowOf(Repo(1), prule, <<>>)
    /\ ppc' = "row"
    /\ UNCHANGED <<pdata, pstatus, prule, runVars, stripVars, resolverVars, startupVars, linkVars>>

ProtectionNext ==
    \/ FetchOk
    \/ FetchNotFound
    \/ MakeRow

InitProtection == RunIdle /\ StripIdle /\ ResolverIdle /\ ProtectionInit /\ StartupIdle /\ LinkIdle

SpecProtection == InitProtection /\ [][ProtectionNext]_vars

(***************************************************************************)
(* The start of the process (index.js 7-30, 165-177): the command line is  *)
(* parsed by yargs, the token and the organization name are resolved, and  *)
(* main sends the organization lookup.                                     *)
(***************************************************************************)
\* --token / --orgName of the command line: not given, given empty, given
CliValues == {Undefined, Str(<<>>), Str(<<"c", "l", "i">>)}

\* GITHUB_TOKEN / ORG_NAME of the environment: not set, set empty, set
EnvValues == {Undefined, Str(<<>>), Str(<<"e", "n", "v">>)}

\* a || b
Or(a, b) == IF Truthy(a) THEN a ELSE b

StartupInit ==
    /\ cliToken \in CliValues
    /\ cliOrgName \in CliValues
    /\ envToken \in EnvValues
    /\ envOrgName \in EnvValues
    /\ githubToken = Undefined
    /\ orgName = Undefined
    /\ spc = "argv"
    /\ lookups = 0

\* 7-20: yargs parses the command line; an option with demandOption: true
\* that is not on the command line makes yargs report it and end the process
ParseArgs ==
    /\ spc = "argv"
    /\ spc' = IF cliToken = Undefined \/ cliOrgName = Undefined THEN "exited" ELSE "parsed"
    /\ UNCHANGED <<cliToken, cliOrgName, envToken, envOrgName, githubToken, orgName, lookups>>
    /\ UNCHANGED <<runVars, stripVars, resolverVars, protectionVars, linkVars>>

\* 22-30: argv.token || process.env.GITHUB_TOKEN, argv.orgName ||
\* process.env.ORG_NAME; process.exit(1) when one of them is missing
ResolveParameters ==
    /\ spc = "parsed"
    /\ githubToken' = Or(cliToken, envToken)
    /\ orgName' = Or(cliOrgName, envOrgName)
    /\ spc' = IF ~Truthy(githubToken') \/ ~Truthy(orgName') THEN "exited" ELSE "resolved"
    /\ UNCHANGED <<cliToken, cliOrgName, envToken, envOrgName, lookups>>
    /\ UNCHANGED <<runVars, stripVars, resolverVars, protectionVars, linkVars>>

\* 245, 165-177: main checks the parameters again and sends the
\* organization lookup
EnterMain ==
    /\ spc = "resolved"
    /\ IF ~Truthy(githubToken) \/ ~Truthy(orgName)
       THEN spc' = "exited" /\ UNCHANGED lookups
       ELSE spc' = "running" /\ lookups' = lookups + 1
    /\ UNCHANGED <<cliToken, cliOrgName, envToken, envOrgName, githubToken, orgName>>
    /\ UNCHANGED <<runVars, stripVars, resolverVars, protectionVars, linkVars>>

StartupNext ==
    \/ ParseArgs
    \/ ResolveParameters
    \/ EnterMain

InitStartup == RunIdle /\ StripIdle /\ ResolverIdle /\ ProtectionIdle /\ StartupInit /\ LinkIdle

SpecStartup == InitStartup /\ [][StartupNext]_vars

(***************************************************************************)
(* The link parsing of getRepos (82-93) on its own, over the link headers  *)
(* of up to MaxEntries entries, each relation at most once, in any order.  *)
(***************************************************************************)
Relations == {RelNext, "rel=\"prev\"", "rel=\"first\"", "rel=\"last\""}

\* the entries of a header: [url, rel], no relation twice
EntriesUpTo(n) ==
    {es \in UNION {[1..m -> [url : {PageUrls[1], PageUrls[2]}, rel : Relations]] : m \in 0..n} :
        \A i, j \in 1..Len(es) : es[i].rel = es[j].rel => i = j}

\* the header as the API sends it: <url>; rel="relation" entries separated
\* by ", "; no header without entries
HeaderOf(es) ==
    IF es = <<>> THEN Undefined
    ELSE Str(Join([i \in 1..Len(es) |-> <<"<", es[i].url, ">", ";", " ", es[i].rel>>],
                  <<",", " ">>))

LinkInit ==
    /\ linkEntries \in EntriesUpTo(MaxEntries)
    /\ nextUrl = Null
    /\ lpc = "in"

\* getRepos 82-93
ParseLink ==
    /\ lpc = "in"
    /\ nextUrl' = NextUrl(HeaderOf(linkEntries))
    /\ lpc' = "parsed"
    /\ UNCHANGED <<linkEntries, runVars, stripVars, resolverVars, protectionVars, startupVars>>

LinkNext == ParseLink

InitLink ==
    RunIdle /\ StripIdle /\ ResolverIdle /\ ProtectionIdle /\ StartupIdle /\ LinkInit

SpecLink == InitLink /\ [][LinkNext]_vars

(***************************************************************************)
(* Properties of the run.                                                  *)
(***************************************************************************)
\* the rows of the report, without the header line
Rows == IF file = <<>> THEN <<>> ELSE Tail(file)

\* getRepos has returned to main
ReposReturned == pc \in {"protection", "admins", "done"} \/ fileExists

\* C1: when main returns, the report has exactly one row per repository of
\* the listing getRepos returned, the i-th row for the i-th repository
C1_OneRowPerRepository ==
    pc = "done" =>
        /\ Len(Rows) = Len(repos)
        /\ \A i \in 1..Len(repos) :
            /\ Rows[i].repo = Str(<<repos[i].name>>)
            /\ Rows[i].branch = Str(<<repos[i].default_branch>>)

\* a finished run over two repositories, one of them unprotected (its lookup
\* answered 404), one of them without admin exceptions
C1_Witness ==
    /\ pc = "done"
    /\ Len(repos) = 2
    /\ \E i \in 1..2 : Rows[i].enabled = Bool(FALSE)
    /\ \E i \in 1..2 : Rows[i].admins = Str(<<>>)

\* C2: getRepos returns the concatenation of the pages of the listing in page
\* order, each once, whatever 403 responses came in between; while it walks,
\* it holds the pages received so far
C2_WalkReturnsAllPages ==
    /\ ReposReturned => repos = Flatten(pages)
    /\ pc = "repos" =>
        /\ finished["repos"] < Len(pages)
        /\ repos = Flatten(SubSeq(pages, 1, finished["repos"]))

\* the walk over two pages has returned after two of its requests were
\* answered 403 and sent again
C2_Witness ==
    /\ fileExists
    /\ Len(pages) = 2
    /\ sent["repos"] = 4
    /\ Len(repos) = 2

\* C3 (as claimed): a 403 to any request is slept on and retried; it never
\* ends the run
C3_ForbiddenNeverEndsRun == ~(pc \in {"exited", "rejected"} /\ resp.status = 403)

\* C4: a 401 is never retried: once a 401 has come back no request is sent,
\* no backoff is slept, and the only step left ends the run in failure
C4_UnauthorizedNeverRetried ==
    /\ [](resp.status = 401 =>
            /\ wait \in {"delivered", "none"}
            /\ wait = "none" => pc \in {"exited", "rejected"})
    /\ [][resp.status = 401 =>
            /\ sent' = sent
            /\ resp' = resp
            /\ now' = now
            /\ wait' = "none"
            /\ pc' \in {"exited", "rejected"}]_vars

\* the run was ended by a 401 to a page of the repository listing
C4_Witness ==
    /\ pc = "rejected"
    /\ resp.status = 401
    /\ req.kind = "repos"

\* the rule getBranchProtectionRules is claimed to return on 404
Unprotected(r, repo) ==
    /\ r.name = Str(<<repo.default_branch>>)
    /\ r.protection = Obj([k \in {"enabled"} |-> Bool(FALSE)])

\* C5: a 404 to the protection lookup is not an error: the rule is
\* {name: default_branch, protection: {enabled: false}}, the admin lookup of
\* the same repository follows, and the row written for it has enabled = false
\* and every other protection column blank
C5_NotFoundIsUnprotected ==
    /\ [][(pc = "protection" /\ wait = "delivered" /\ resp.status = 404) =>
            /\ pc' = "admins"
            /\ wait' = "response"
            /\ req' = [kind |-> "admins", target |-> RepoUrl(repos[idx], "collaborators")]
            /\ Unprotected(rule', repos[idx])]_vars
    /\ [][(pc = "admins" /\ Unprotected(rule, repos[idx]) /\ Len(file') > Len(file)) =>
            LET row == file'[Len(file')]
            IN  /\ row.repo = Str(<<repos[idx].name>>)
                /\ row.enabled = Bool(FALSE)
                /\ \A c \in ProtectionColumns : row[c] = Undefined]_vars

\* the report holds the row of an unprotected repository
C5_Witness ==
    /\ Len(Rows) >= 1
    /\ Rows[1].enabled = Bool(FALSE)
    /\ \A c \in ProtectionColumns : Rows[1][c] = Undefined

\* C6: a 401 or 404 to the organization lookup ends the run there: nothing
\* else is requested and no report is created; the report exists only after
\* the organization lookup succeeded
C6_ValidationGatesTheRun ==
    /\ [](pc = "exited" =>
            /\ req.kind = "org"
            /\ resp.status \in {401, 404}
            /\ \A k \in Kinds \ {"org"} : sent[k] = 0
            /\ ~fileExists)
    /\ [](fileExists => finished["org"] = 1)
    /\ [][(pc = "validate" /\ wait = "delivered" /\ resp.status \in {401, 404}) =>
            pc' = "exited"]_vars
    /\ [][pc = "exited" => UNCHANGED <<pc, sent, fileExists, file>>]_vars

\* the run was ended by a 404 to the organization lookup that had been
\* answered 403 before
C6_Witness ==
    /\ pc = "exited"
    /\ resp.status = 404
    /\ sent["org"] = 2

\* C9: the report is append-only and ordered: once created it is the header
\* followed by complete rows for a prefix of the repository list, in listing
\* order, also when the run has failed; a step only appends one row, after
\* the protection lookup and the admin lookup of its repository returned
C9_ReportAppendOnly ==
    /\ [](~fileExists => file = <<>>)
    /\ [](fileExists =>
            /\ file # <<>>
            /\ file[1] = HeaderLine
            /\ Len(Rows) <= Len(repos)
            /\ \A i \in 1..Len(Rows) :
                /\ DOMAIN Rows[i] = Columns
                /\ Rows[i].repo = Str(<<repos[i].name>>))
    /\ [][/\ fileExists => fileExists'
          /\ Len(file') >= Len(file)
          /\ SubSeq(file', 1, Len(file)) = file
          /\ fileExists => Len(file') <= Len(file) + 1
          /\ (fileExists /\ Len(file') > Len(file)) =>
                /\ finished'["protection"] = Len(file') - 1
                /\ finished'["admins"] = Len(file') - 1]_vars

\* the run failed in the loop, on the second of two repositories: the report
\* is left with the header and the first row
C9_Witness ==
    /\ pc = "rejected"
    /\ Len(repos) = 2
    /\ Len(file) = 2
    /\ req.kind \in {"protection", "admins"}

\* the response is a success whose x-ratelimit-remaining reads zero
Exhausted(r) == r.status = 200 /\ r.remaining = Str(<<"0">>)

\* C10: a successful response whose rate-limit-remaining header reads exactly
\* zero is withheld for (reset - now) seconds, so that the caller has it, and
\* the next request goes out, no earlier than the reset time; it is then
\* delivered unchanged; any other response is delivered without delay
C10_ThrottleUntilReset ==
    /\ [](wait = "held" => Exhausted(resp))
    /\ [][(wait = "response" /\ Exhausted(resp')) =>
            /\ wait' = "held"
            /\ now' = now
            /\ resp'.reset.present =>
                due' >= now + (resp'.reset.sec - (now \div MsPerSec)) * MsPerSec]_vars
    /\ [][(wait = "response" /\ wait' # "response" /\ ~Exhausted(resp')) =>
            /\ wait' = "delivered"
            /\ now' = now]_vars
    /\ [][wait = "held" =>
            /\ wait' \in {"held", "delivered"}
            /\ resp' = resp
            /\ sent' = sent
            /\ wait' = "delivered" =>
                /\ now' >= due
                /\ resp.reset.present => now' >= resp.reset.sec * MsPerSec]_vars
    /\ [][(sent' # sent /\ Exhausted(resp) /\ resp.reset.present) =>
            now' >= resp.reset.sec * MsPerSec]_vars

\* a response that announced a reset in the future has been delivered, the
\* reset time reached
C10_Witness ==
    /\ wait = "delivered"
    /\ Exhausted(resp)
    /\ resp.reset.present
    /\ resp.reset.sec * MsPerSec > StartMs
    /\ now >= resp.reset.sec * MsPerSec

(***************************************************************************)
(* Properties of the admin-exception resolver (SpecResolver).              *)
(***************************************************************************)
\* the admin exceptions of a collaborators answer: the users whose
\* permissions.admin is set, their logins lower-cased, without those that
\* are the lower-cased login of an owner; in the order of the answer
RECURSIVE AdminExceptions(_, _)
AdminExceptions(users, owners) ==
    IF users = <<>> THEN <<>>
    ELSE LET login == ToLowerCase(Head(users).login)
             isOwner == \E i \in 1..Len(owners) : ToLowerCase(owners[i].login) = login
         IN  (IF Head(users).admin /\ ~isOwner THEN <<login>> ELSE <<>>)
             \o AdminExceptions(Tail(users), owners)

\* C7: the admins column is the admin exceptions of the collaborators answer,
\* not sorted, not deduplicated, joined with semicolons
C7_AdminsColumn ==
    apc = "column" => column = Join(AdminExceptions(collabData, ownersData), <<";">>)

\* owners {alice, Bob}, admins [Alice, Carol, Dave]: the column is carol;dave
C7_Witness ==
    /\ apc = "column"
    /\ ownersData = <<[login |-> ToLowerCase(Alice)], [login |-> <<"B", "o", "b">>]>>
    /\ collabData = <<[login |-> Alice, admin |-> TRUE], [login |-> Carol, admin |-> TRUE],
                      [login |-> Dave, admin |-> TRUE]>>
    /\ column = <<"c", "a", "r", "o", "l", ";", "d", "a", "v", "e">>

\* the owners of the organization, and the collaborators of the repository,
\* over all pages of their listings
AllOwners == ownersData \o ownersMore

AllCollaborators == collabData \o collabMore

\* C18: the owner set holds the lower-cased login of every owner of the
\* organization, also of those the API lists on a later page, so that no
\* owner's login is in the admins column; and the column holds the admin
\* exceptions of all collaborators, also of those on a later page
C18_ListingsComplete ==
    /\ apc \in {"owners", "admins", "column"} =>
        \A i \in 1..Len(AllOwners) : Includes(ownerSet, ToLowerCase(AllOwners[i].login))
    /\ apc = "column" =>
        /\ \A i \in 1..Len(AllOwners) :
            ~Includes(Split(column, <<";">>), ToLowerCase(AllOwners[i].login))
        /\ column = Join(AdminExceptions(AllCollaborators, AllOwners), <<";">>)

(***************************************************************************)
(* Properties of removeUrlsFromObject (SpecStrip).                         *)
(***************************************************************************)
\* a string that starts with "http"
IsUrl(x) == IsString(x) /\ StartsWith(x.v, Http)

\* the tree holds a URL string as the value of a key, at some depth
RECURSIVE HasUrl(_)
HasUrl(x) ==
    /\ IsNonNullObject(x)
    /\ \E k \in DOMAIN x.el : IsUrl(x.el[k]) \/ HasUrl(x.el[k])

\* every key of a whose value is not a URL string is a key of r: with the
\* same value when that is a scalar, with a list for a list and a map for a
\* map of which the same holds
RECURSIVE Keeps(_, _)
Keeps(a, r) ==
    IsNonNullObject(a) =>
        /\ r.t = a.t
        /\ \A k \in DOMAIN a.el :
            IF IsNonNullObject(a.el[k])
            THEN k \in DOMAIN r.el /\ Keeps(a.el[k], r.el[k])
            ELSE ~IsUrl(a.el[k]) => (k \in DOMAIN r.el /\ r.el[k] = a.el[k])

\* C8: removeUrlsFromObject is idempotent, its result holds no string that
\* starts with "http" at any depth, and every other value is kept under its
\* key
C8_StripIdempotentExact ==
    /\ upc \in {"once", "twice"} => ~HasUrl(stripped) /\ Keeps(tree, stripped)
    /\ upc = "twice" => restripped = stripped

\* a list of a URL and a map that holds a URL has been stripped twice: the
\* list keeps its second element in place, behind a hole
C8_Witness ==
    /\ upc = "twice"
    /\ IsArray(tree)
    /\ DOMAIN tree.el = {"0", "1"}
    /\ IsUrl(tree.el["0"])
    /\ tree.el["1"].t = "object"
    /\ HasUrl(tree.el["1"])
    /\ DOMAIN stripped.el = {"1"}
    /\ stripped.len = 2

(***************************************************************************)
(* Further properties of the run.                                          *)
(***************************************************************************)
\* a failure that is neither a 403 nor the 404 of a protection lookup: no
\* response (network error, timeout), 401, an unexpected status, or a 404 of
\* another request
FailsFast(status, kind) ==
    \/ status \in {0, 401, 500}
    \/ status = 404 /\ kind # "protection"

\* C11: a failure that is neither a 403 nor a 404 of the protection lookup is
\* not retried and not swallowed: once it is with the caller the run ends in
\* a failure state with its next step, no request is issued then or later,
\* and no row is written for the repository being processed
C11_FailFast ==
    /\ [][(wait = "delivered" /\ FailsFast(resp.status, req.kind)) =>
            /\ pc' \in {"exited", "rejected"}
            /\ wait' = "none"
            /\ UNCHANGED <<req, resp, sent, file, fileExists>>]_vars
    /\ [][(pc \in {"exited", "rejected"}) => UNCHANGED <<pc, wait, req, sent, file>>]_vars
    /\ []((pc \in {"exited", "rejected"} /\ req.kind \in {"protection", "admins"}) =>
            /\ Len(Rows) = idx - 1
            /\ \A i \in 1..Len(Rows) : Rows[i].repo # Str(<<repos[idx].name>>))
    /\ []((wait = "delivered" /\ FailsFast(resp.status, req.kind) /\ n403 = 0) =>
            sent[req.kind] = finished[req.kind] + 1)

\* the collaborators lookup of the second repository failed with an
\* unexpected status: the run has ended with the first row only
C11_Witness ==
    /\ pc = "rejected"
    /\ req.kind = "admins"
    /\ resp.status = 500
    /\ idx = 2
    /\ Len(Rows) = 1

\* the requests issued so far, and those whose answer has come back: the
\* lookups that returned to main, the 403 answers, and the answer that is in
\* the transport's or the caller's hands or ended the run
TotalSent == Sum([i \in 1..5 |-> sent[<<"org", "owners", "repos", "protection", "admins">>[i]]])

TotalAnswered ==
    Sum([i \in 1..5 |-> finished[<<"org", "owners", "repos", "protection", "admins">>[i]]])
    + n403
    + (IF (wait \in {"held", "delivered"} \/ pc \in {"exited", "rejected"}) /\ resp.status # 403
       THEN 1 ELSE 0)

\* the position of a kind of request in the order of the run
Rank(kind) ==
    CASE kind = "none" -> 0
      [] kind = "org" -> 1
      [] kind = "owners" -> 2
      [] kind = "repos" -> 3
      [] OTHER -> 4

\* C12: the run is sequential: at most one request is outstanding, and the
\* requests go out in the order organization, owners (once), the pages of the
\* listing, then for each repository in listing order its protection and
\* then its collaborators, the next repository's only after the row is written
C12_Sequential ==
    /\ [](TotalSent - TotalAnswered = IF wait = "response" THEN 1 ELSE 0)
    /\ [](sent["owners"] <= 1 /\ finished["org"] <= 1)
    /\ [](pc = "validate" =>
            /\ req = [kind |-> "org", target |-> Str(<<OrgUrl>>)]
            /\ \A k \in Kinds \ {"org"} : sent[k] = 0)
    /\ [](pc = "owners" =>
            /\ req.kind = "owners"
            /\ finished["org"] = 1
            /\ \A k \in {"repos", "protection", "admins"} : sent[k] = 0)
    /\ [](pc = "repos" =>
            /\ req = [kind |-> "repos", target |-> Str(<<PageUrls[finished["repos"] + 1]>>)]
            /\ finished["owners"] = 1
            /\ \A k \in {"protection", "admins"} : sent[k] = 0)
    /\ [](pc = "protection" =>
            /\ req = [kind |-> "protection", target |-> RepoUrl(Flatten(pages)[idx], "protection")]
            /\ finished["repos"] = Len(pages)
            /\ sent["protection"] = idx /\ sent["admins"] = idx - 1
            /\ Len(Rows) = idx - 1)
    /\ [](pc = "admins" =>
            /\ req = [kind |-> "admins", target |-> RepoUrl(Flatten(pages)[idx], "collaborators")]
            /\ sent["protection"] = idx /\ finished["protection"] = idx
            /\ sent["admins"] = idx
            /\ Len(Rows) = idx - 1)
    /\ [][sent' # sent =>
            /\ wait \notin {"response", "held"}
            /\ wait' = "response"
            /\ TotalSent' = TotalSent + 1
            /\ sent'[req'.kind] = sent[req'.kind] + 1
            /\ Rank(req'.kind) >= Rank(req.kind)
            /\ req'.kind = "protection" /\ req.kind = "admins" => Len(Rows') = idx]_vars

\* the protection lookup of the second repository is outstanding: the first
\* repository's row is written, both its lookups have returned
C12_Witness ==
    /\ pc = "protection"
    /\ wait = "response"
    /\ idx = 2
    /\ Len(Rows) = 1
    /\ finished["admins"] = 1
    /\ sent["repos"] >= 2

(***************************************************************************)
(* Properties of getBranchProtectionRules and the row (SpecProtection).    *)
(***************************************************************************)
\* C13: for a successful protection response the record's
\* required_pull_request_reviews tells whether the response has that object,
\* its count is the approving-review count of the object and 0 when the count
\* is absent, its code-owner flag is the flag of the object and false when
\* the flag is absent, and restrictions tells whether the response has a
\* restrictions object
C13_ReviewsAndRestrictions ==
    (ppc \in {"rule", "row"} /\ pstatus = 200) =>
        LET reviews == Get(pdata, "required_pull_request_reviews")
            count == Get(reviews, "required_approving_review_count")
            owners == Get(reviews, "require_code_owner_reviews")
            record == prule.protection
        IN  /\ Get(record, "required_pull_request_reviews") = Bool(reviews # Undefined)
            /\ Get(record, "required_pull_request_reviews_count") =
                    (IF count # Undefined THEN count ELSE Num("0"))
            /\ Get(record, "required_pull_request_reviews_code_owners") =
                    (IF owners # Undefined THEN owners ELSE Bool(FALSE))
            /\ Get(record, "restrictions") = Bool(Get(pdata, "restrictions") # Undefined)

\* C17: the row of a repository whose protection lookup succeeded has
\* enabled = true, and each wrapped setting's column is the enabled field
\* of its wrapper in the response, absent (undefined) when the response has
\* no such wrapper; enabled is false exactly for a lookup answered 404
C17_WrapperColumns ==
    ppc = "row" =>
        /\ pstatus = 200 =>
            /\ prow.enabled = Bool(TRUE)
            /\ \A k \in WrappedSettings :
                prow[k] = (IF k \in DOMAIN pdata.el
                           THEN pdata.el[k].el["enabled"]
                           ELSE Undefined)
        /\ prow.enabled = Bool(FALSE) <=> pstatus = 404

\* the row of a response with one wrapper enabled, one disabled and one
\* absent
C17_Witness ==
    /\ ppc = "row"
    /\ pstatus = 200
    /\ prow["required_signatures"] = Bool(TRUE)
    /\ prow["enforce_admins"] = Bool(FALSE)
    /\ "allow_deletions" \notin DOMAIN pdata.el
    /\ prow["allow_deletions"] = Undefined

(***************************************************************************)
(* Properties of the start of the process (SpecStartup).                   *)
(***************************************************************************)
\* the value is given on the command line or in the environment
Given(cli, env) == Truthy(cli) \/ Truthy(env)

\* C14: with GITHUB_TOKEN and ORG_NAME set in the environment and nothing on
\* the command line the run starts and sends the organization lookup; with
\* the token or the organization name given in neither place the process
\* ends before any request
C14_FlagsOrEnvironment ==
    /\ (/\ cliToken = Undefined /\ cliOrgName = Undefined
        /\ Truthy(envToken) /\ Truthy(envOrgName)) =>
            /\ spc # "exited"
            /\ spc \in {"running"} => lookups = 1
    /\ (~Given(cliToken, envToken) \/ ~Given(cliOrgName, envOrgName)) =>
            /\ lookups = 0
            /\ spc # "running"

\* C19: the branch column of every row is the default_branch the listing
\* gave for the row's repository, whether the protection lookup succeeded or
\* answered 404 and whatever name the protection response has or lacks; the
\* list getRepos returned is not changed by the loop over it
C19_BranchFromListing ==
    /\ [](\A i \in 1..Len(Rows) :
            /\ Rows[i].repo = Str(<<Flatten(pages)[i].name>>)
            /\ Rows[i].branch = Str(<<Flatten(pages)[i].default_branch>>))
    /\ [][ReposReturned => repos' = repos]_vars

\* two rows are written: the first for a lookup answered 404, the second
\* for a lookup whose response carries a name that is not the default branch
C19_Witness ==
    /\ Len(Rows) = 2
    /\ Rows[1].enabled = Bool(FALSE)
    /\ Rows[2].enabled = Bool(TRUE)
    /\ rule.name = Str(<<"other">>)
    /\ Rows[2].branch # rule.name

(***************************************************************************)
(* Termination of the run (SpecLive).                                      *)
(***************************************************************************)
\* main has returned, has thrown, or the process has been ended
Terminated == pc \in {"done", "exited", "rejected"}

\* C15: with finitely many 403 responses and a finite chain of next links the
\* run reaches a terminal state: no loop other than the 403 retry and the
\* page walk repeats
C15_Terminates == <>[]Terminated

\* a run that was answered 403 as often as the API does, walked two pages
\* and wrote its rows has returned
C15_Witness ==
    /\ pc = "done"
    /\ n403 = Max403
    /\ Len(pages) = 2
    /\ Len(Rows) = 2

(***************************************************************************)
(* Properties of the link parsing (SpecLink).                              *)
(***************************************************************************)
\* the entries of the header whose relation is next
NextEntries == SelectSeq(linkEntries, LAMBDA e : e.rel = RelNext)

\* C16: the walk goes on to the URL between < and > of the entry whose
\* relation is next, wherever it stands in the header, never to the URL of
\* an entry with another relation; it stops (null) when the header is absent
\* or has no such entry
C16_FollowsNextEntry ==
    lpc = "parsed" =>
        IF NextEntries # <<>>
        THEN nextUrl = Str(<<NextEntries[1].url>>)
        ELSE nextUrl = Null

\* a header of three entries whose last is the next entry, with a URL that
\* is not the URL of the entries before it
C16_Witness ==
    /\ lpc = "parsed"
    /\ Len(linkEntries) = 3
    /\ linkEntries[3].rel = RelNext
    /\ linkEntries[1].url # linkEntries[3].url
    /\ nextUrl = Str(<<linkEntries[3].url>>)

====
